---- MODULE Spec2Model ----
(***************************************************************************)
(* Voice session lifecycle of the Veezy backend (apps/api):                *)
(* VoiceAgentService reconciles the local VoiceSession table with the      *)
(* sessions of the remote Python voice agent.  Every handler is an async   *)
(* function; each await (database call, remote fetch) is one step, so      *)
(* handlers of concurrent HTTP requests interleave between awaits.         *)
(* LeadService and BookingService create the bookings, resolve meeting     *)
(* tokens and update booking statuses.  Instants are milliseconds.         *)
(***************************************************************************)
EXTENDS Integers, FiniteSets, Sequences, TLC

\* ---------------------------------------------------------------- bounds
MaxRecords  == 2      \* VoiceSession rows ever created (ids are fresh uuids)
MaxRemote   == 2      \* remote sessions ever created by the voice agent
MaxTime     == 2      \* last instant of the clock, which starts at 1
MaxLeads    == 3      \* lead rows ever created (two exist from the start)

Reqs       == {1, 2}  \* request slots: two HTTP requests are served at once
RecIds     == 1..MaxRecords
RemoteIds  == 1..MaxRemote
LeadIds    == 1..MaxLeads

\* ------------------------------------------------------------ value sets
BookingIds  == {"b1", "b2", "b3"}      \* b3 is the id of the next booking created
AgentIds    == {"a0", "a1", "a2", "a3"}  \* a0 is an id no agent row carries
Tokens      == {"t1", "t2", "t3"}      \* values randomUUID() may return
ScheduledAts == {1, 2}                 \* scheduledAt of a CreateLeadDto
UpdateStatuses == {"CANCELLED"}        \* body of PATCH /bookings/:id/status
HourMs      == 60 * 60 * 1000          \* one hour in Date arithmetic
NullStr     == "<null>"                \* SQL NULL in a text column
NullInt     == -1                      \* SQL NULL in an integer / timestamp column
Captures    == {[transcript |-> "", duration |-> 0],
                [transcript |-> "hello", duration |-> 7]}
    \* what a 2xx reply of the remote status / end call may carry
Replies     == {"ok", "error", "throw"}
    \* ok: 2xx with a parsable body; error: non-2xx status; throw: the fetch
    \* rejects (unreachable, timeout) or response.json() rejects (unparsable
    \* body), both inside the same try block at every call site

NoRec == [id |-> 0, bookingId |-> "none", sessionId |-> 0, status |-> "none",
          transcript |-> NullStr, durationSeconds |-> NullInt, endedAt |-> NullInt]

NoBooking == [exists |-> FALSE, expiresAt |-> 0, status |-> "none",
              leadId |-> 0, agentId |-> "none", scheduledAt |-> 0, meetingToken |-> "none"]

NoRet == [sessionId |-> 0, roomToken |-> FALSE, needsRestart |-> FALSE,
          transcript |-> NullStr, duration |-> NullInt,
          bookingId |-> "none", isExpired |-> FALSE, status |-> "none"]

Idle == [op |-> "idle", pc |-> "idle", bookingId |-> "none", sessionId |-> 0,
         preStatus |-> "none", vs |-> NoRec, probe |-> "none", reply |-> "none",
         remoteId |-> 0, transcript |-> "", duration |-> 0,
         agentId |-> "none", scheduledAt |-> 0, leadId |-> 0, meetingToken |-> "none",
         outcome |-> "none", ret |-> NoRet]

\* The meeting page before it is opened. pc is the fetch the page is about
\* to send or is waiting for; via tells whether its fetches pass the web
\* routes or reach the API's endpoints as they are.
NoPage == [pc |-> "off", via |-> "none", meetingToken |-> "none", bookingId |-> "none",
           sessionId |-> 0, livekitToken |-> FALSE, needsRestart |-> FALSE,
           restarting |-> FALSE]

\* Table agents; agent rows are not written by any modelled operation.
\* linkExpiryHours is validated to 1..168 and defaults to 24.
Agents == [a \in AgentIds |->
             IF a = "a1" THEN [exists |-> TRUE, linkExpiryHours |-> 24]
             ELSE IF a = "a2" THEN [exists |-> TRUE, linkExpiryHours |-> 1]
             ELSE IF a = "a3" THEN [exists |-> TRUE, linkExpiryHours |-> 168]
             ELSE [exists |-> FALSE, linkExpiryHours |-> 0]]

VARIABLES
    now,            \* new Date() / Date.now()
    bookings,       \* table bookings:       BookingIds -> row
    voiceSessions,  \* table voice_sessions: RecIds -> row (NoRec: no such row)
    nextRec,        \* number of voice_sessions rows created so far
    remote,         \* sessions the Python voice agent has created: RemoteIds -> room
    nextRemote,     \* number of remote sessions created so far
    req,            \* the handlers in flight: Reqs -> locals of one call
    leads,          \* table leads: the ids of its rows, handed out in order
    page            \* the meeting page open in a visitor's browser: its React state

vars == <<now, bookings, voiceSessions, nextRec, remote, nextRemote, req, leads, page>>

\* --------------------------------------------------------------- helpers
\* JavaScript a || b: the empty string, 0 and null are falsy.
StrOr(a, b) == IF a = "" \/ a = NullStr THEN b ELSE a

IntOr(a, b) == IF a = 0 \/ a = NullInt THEN b ELSE a

\* Rows of voice_sessions that belong to booking b.
RecordsOf(b) == {i \in RecIds : voiceSessions[i].id # 0 /\ voiceSessions[i].bookingId = b}

\* booking.voiceSession of a findUnique with include: { voiceSession: true }.
VoiceSessionOf(b) ==
    IF RecordsOf(b) = {} THEN NoRec
    ELSE voiceSessions[CHOOSE i \in RecordsOf(b) : TRUE]

\* Variant: voice_sessions has no unique index on bookingId.
NoUniqueIndex(b) == FALSE

\* voice_sessions.bookingId is the scalar of a one-to-one relation, so a
\* second row for the same booking violates its unique index.
UniqueBookingIdViolated(b) == RecordsOf(b) # {}

\* A response is delivered before anything else happens.
Delivered == \A q \in Reqs : req[q].pc # "done"

\* A call is served by the first free slot.
Free(r) == /\ Delivered
           /\ req[r].pc = "idle"
           /\ \A q \in Reqs : q < r => req[q].pc # "idle"

\* Handler r of operation op is about to run the step label names.
At(r, op, label) == Delivered /\ req[r].op = op /\ req[r].pc = label

Finish(r, outcome, ret) ==
    req' = [req EXCEPT ![r].pc = "done", ![r].outcome = outcome, ![r].ret = ret]

Init ==
    /\ now = 1
    /\ bookings = [b \in BookingIds |->
                     IF b = "b1"
                     THEN [exists |-> TRUE, expiresAt |-> 1, status |-> "PENDING",
                           leadId |-> 1, agentId |-> "a1",
                           scheduledAt |-> 1 - 24 * HourMs, meetingToken |-> "t1"]
                     ELSE IF b = "b2"
                     THEN [exists |-> TRUE, expiresAt |-> 0, status |-> "PENDING",
                           leadId |-> 2, agentId |-> "a1",
                           scheduledAt |-> 0 - 24 * HourMs, meetingToken |-> "t2"]
                     ELSE NoBooking]
    /\ leads = {1, 2}
    /\ voiceSessions = [i \in RecIds |-> NoRec]
    /\ nextRec = 0
    /\ remote = [s \in RemoteIds |-> "none"]
    /\ nextRemote = 0
    /\ req = [r \in Reqs |-> Idle]
    /\ page = NoPage

\* ------------------------------------------------------------ environment
Tick ==
    /\ now < MaxTime
    /\ Delivered
    /\ now' = now + 1
    /\ UNCHANGED <<bookings, voiceSessions, nextRec, remote, nextRemote, req, leads, page>>

\* The response has been sent; the slot serves the next request.
Retire(r) ==
    /\ req[r].pc = "done"
    /\ req' = [req EXCEPT ![r] = Idle]
    /\ UNCHANGED <<now, bookings, voiceSessions, nextRec, remote, nextRemote, leads, page>>

\* Variant: a booking is turned away from the instant expiresAt on.
StartReadRejectsAtExpiry(r, b) ==
    /\ Free(r)
    /\ LET booking == bookings[b]
           call == [Idle EXCEPT !.op = "start", !.bookingId = b]
       IN  IF ~booking.exists
           THEN req' = [req EXCEPT ![r] = [call EXCEPT !.pc = "done", !.outcome = "NotFound"]]
           ELSE IF booking.expiresAt <= now
           THEN req' = [req EXCEPT ![r] = [call EXCEPT !.pc = "done", !.outcome = "NotFound"]]
           ELSE req' = [req EXCEPT ![r] =
                           [call EXCEPT !.vs = VoiceSessionOf(b),
                                        !.preStatus = booking.status,
                                        !.pc = IF VoiceSessionOf(b).id # 0
                                               THEN "s_probe" ELSE "s_create"]]
    /\ UNCHANGED <<now, bookings, voiceSessions, nextRec, remote, nextRemote, leads, page>>

\* ------------------------------------------------- startVoiceSession
\* A call arrives: findUnique with the voiceSession included, then the
\* existence and expiry checks.
StartRead(r, b) ==
    /\ Free(r)
    /\ LET booking == bookings[b]
           call == [Idle EXCEPT !.op = "start", !.bookingId = b]
       IN  IF ~booking.exists
           THEN req' = [req EXCEPT ![r] = [call EXCEPT !.pc = "done", !.outcome = "NotFound"]]
           ELSE IF booking.expiresAt < now
           THEN req' = [req EXCEPT ![r] = [call EXCEPT !.pc = "done", !.outcome = "NotFound"]]
           ELSE req' = [req EXCEPT ![r] =
                           [call EXCEPT !.vs = VoiceSessionOf(b),
                                        !.preStatus = booking.status,
                                        !.pc = IF VoiceSessionOf(b).id # 0
                                               THEN "s_probe" ELSE "s_create"]]
    /\ UNCHANGED <<now, bookings, voiceSessions, nextRec, remote, nextRemote, leads, page>>

\* Variant: the probe's active flag is not looked at, every record is stale.
StartProbeIgnoresActive(r) ==
    /\ At(r, "start", "s_probe")
    /\ \E reply \in Replies, active \in BOOLEAN :
         LET answer == IF reply = "ok" THEN (IF active THEN "active" ELSE "inactive")
                       ELSE reply
         IN  /\ reply # "ok" => active = FALSE
             /\ req' = [req EXCEPT ![r].probe = answer, ![r].pc = "s_delete"]
    /\ UNCHANGED <<now, bookings, voiceSessions, nextRec, remote, nextRemote, leads, page>>

\* Variant: a probe that throws is rethrown like the handler's other errors.
StartProbeRethrows(r) ==
    /\ At(r, "start", "s_probe")
    /\ \E reply \in Replies, active \in BOOLEAN :
         LET answer == IF reply = "ok" THEN (IF active THEN "active" ELSE "inactive")
                       ELSE reply
         IN  /\ reply # "ok" => active = FALSE
             /\ IF answer = "active"
                THEN req' = [req EXCEPT ![r].probe = answer, ![r].pc = "done",
                                        ![r].outcome = "Conflict"]
                ELSE IF answer = "throw"
                THEN req' = [req EXCEPT ![r].probe = answer, ![r].pc = "done",
                                        ![r].outcome = "Internal"]
                ELSE req' = [req EXCEPT ![r].probe = answer, ![r].pc = "s_delete"]
    /\ UNCHANGED <<now, bookings, voiceSessions, nextRec, remote, nextRemote, leads, page>>

\* Variant: a probe that cannot confirm the record keeps it and blocks.
StartProbeBlocksOnFailure(r) ==
    /\ At(r, "start", "s_probe")
    /\ \E reply \in Replies, active \in BOOLEAN :
         LET answer == IF reply = "ok" THEN (IF active THEN "active" ELSE "inactive")
                       ELSE reply
         IN  /\ reply # "ok" => active = FALSE
             /\ IF answer # "inactive"
                THEN req' = [req EXCEPT ![r].probe = answer, ![r].pc = "done",
                                        ![r].outcome = "Conflict"]
                ELSE req' = [req EXCEPT ![r].probe = answer, ![r].pc = "s_delete"]
    /\ UNCHANGED <<now, bookings, voiceSessions, nextRec, remote, nextRemote, leads, page>>

\* GET /sessions/{id}/status for the existing record's remote session.
StartProbe(r) ==
    /\ At(r, "start", "s_probe")
    /\ \E reply \in Replies, active \in BOOLEAN :
         LET answer == IF reply = "ok" THEN (IF active THEN "active" ELSE "inactive")
                       ELSE reply
         IN  /\ reply # "ok" => active = FALSE
             /\ IF answer = "active"
                THEN req' = [req EXCEPT ![r].probe = answer, ![r].pc = "done",
                                        ![r].outcome = "Conflict"]
                ELSE req' = [req EXCEPT ![r].probe = answer, ![r].pc = "s_delete"]
    /\ UNCHANGED <<now, bookings, voiceSessions, nextRec, remote, nextRemote, leads, page>>

\* Variant: the stale record is left in place.
StartKeepStale(r) ==
    /\ At(r, "start", "s_delete")
    /\ req' = [req EXCEPT ![r].pc = "s_create"]
    /\ UNCHANGED <<now, bookings, voiceSessions, nextRec, remote, nextRemote, leads, page>>

\* prisma.voiceSession.delete of the stale record.  When the row is already
\* gone the delete in the try block rejects, the catch block deletes again,
\* and that rejection leaves the handler unhandled.
StartDeleteStale(r) ==
    /\ At(r, "start", "s_delete")
    /\ LET id == req[r].vs.id
       IN  IF voiceSessions[id].id = 0
           THEN /\ Finish(r, "Unhandled", NoRet)
                /\ UNCHANGED voiceSessions
           ELSE /\ voiceSessions' = [voiceSessions EXCEPT ![id] = NoRec]
                /\ req' = [req EXCEPT ![r].pc = "s_create"]
    /\ UNCHANGED <<now, bookings, nextRec, remote, nextRemote, leads, page>>

\* Variant: response.ok is not looked at, an error reply is persisted too.
StartCreateRemoteIgnoresStatus(r) ==
    /\ At(r, "start", "s_create")
    /\ \E reply \in Replies :
         IF reply = "ok"
         THEN /\ nextRemote < MaxRemote
              /\ nextRemote' = nextRemote + 1
              /\ remote' = [remote EXCEPT ![nextRemote + 1] = req[r].bookingId]
              /\ req' = [req EXCEPT ![r].reply = reply, ![r].remoteId = nextRemote + 1,
                                    ![r].pc = "s_persist"]
         ELSE /\ UNCHANGED <<remote, nextRemote>>
              /\ req' = [req EXCEPT ![r].reply = reply,
                                    ![r].pc = IF reply = "error" THEN "s_persist" ELSE "done",
                                    ![r].outcome = IF reply = "error" THEN "none" ELSE "Internal"]
    /\ UNCHANGED <<now, bookings, voiceSessions, nextRec, leads, page>>

\* POST /sessions/start.
StartCreateRemote(r) ==
    /\ At(r, "start", "s_create")
    /\ \E reply \in Replies :
         IF reply = "ok"
         THEN /\ nextRemote < MaxRemote
              /\ nextRemote' = nextRemote + 1
              /\ remote' = [remote EXCEPT ![nextRemote + 1] = req[r].bookingId]
              /\ req' = [req EXCEPT ![r].reply = reply, ![r].remoteId = nextRemote + 1,
                                    ![r].pc = "s_persist"]
         ELSE /\ UNCHANGED <<remote, nextRemote>>
              /\ req' = [req EXCEPT ![r].reply = reply, ![r].pc = "done",
                                    ![r].outcome = IF reply = "error" THEN "Unavailable"
                                                   ELSE "Internal"]
    /\ UNCHANGED <<now, bookings, voiceSessions, nextRec, leads, page>>

\* prisma.voiceSession.create and the return of the join credentials.
StartPersist(r) ==
    /\ At(r, "start", "s_persist")
    /\ nextRec < MaxRecords
    /\ LET b == req[r].bookingId
           id == nextRec + 1
       IN  IF UniqueBookingIdViolated(b)
           THEN /\ Finish(r, "Internal", NoRet)
                /\ UNCHANGED <<voiceSessions, nextRec>>
           ELSE /\ nextRec' = id
                /\ voiceSessions' = [voiceSessions EXCEPT ![id] =
                       [NoRec EXCEPT !.id = id, !.bookingId = b,
                                     !.sessionId = req[r].remoteId, !.status = "active"]]
                /\ Finish(r, "Success", [NoRet EXCEPT !.sessionId = id, !.roomToken = TRUE])
    /\ UNCHANGED <<now, bookings, remote, nextRemote, leads, page>>

\* Variant: findFirst without the status filter.
GetActiveReadAnyStatus(r, b) ==
    /\ Free(r)
    /\ LET found == RecordsOf(b)
           call == [Idle EXCEPT !.op = "getActive", !.bookingId = b]
       IN  IF found = {}
           THEN req' = [req EXCEPT ![r] = [call EXCEPT !.pc = "done", !.outcome = "NotFound"]]
           ELSE \E i \in found :
                  req' = [req EXCEPT ![r] = [call EXCEPT !.vs = voiceSessions[i],
                                                         !.pc = "g_token"]]
    /\ UNCHANGED <<now, bookings, voiceSessions, nextRec, remote, nextRemote, leads, page>>

\* ------------------------------------------ getActiveSessionByBooking
\* A call arrives: findFirst where bookingId and status 'active'.
GetActiveRead(r, b) ==
    /\ Free(r)
    /\ LET found == {i \in RecordsOf(b) : voiceSessions[i].status = "active"}
           call == [Idle EXCEPT !.op = "getActive", !.bookingId = b]
       IN  IF found = {}
           THEN req' = [req EXCEPT ![r] = [call EXCEPT !.pc = "done", !.outcome = "NotFound"]]
           ELSE \E i \in found :
                  req' = [req EXCEPT ![r] = [call EXCEPT !.vs = voiceSessions[i],
                                                         !.pc = "g_token"]]
    /\ UNCHANGED <<now, bookings, voiceSessions, nextRec, remote, nextRemote, leads, page>>

\* Variant: a failed rejoin-token call marks the stale record completed.
GetActiveTokenCompletesStale(r) ==
    /\ At(r, "getActive", "g_token")
    /\ \E reply \in Replies :
         /\ req' = [req EXCEPT ![r].reply = reply, ![r].pc = "done", ![r].outcome = "Success",
                               ![r].ret = IF reply = "ok"
                                          THEN [NoRet EXCEPT !.sessionId = req[r].vs.id,
                                                             !.roomToken = TRUE]
                                          ELSE [NoRet EXCEPT !.sessionId = req[r].vs.id,
                                                             !.needsRestart = TRUE]]
         /\ voiceSessions' = IF reply = "ok" THEN voiceSessions
                             ELSE [voiceSessions EXCEPT ![req[r].vs.id].status = "completed"]
    /\ UNCHANGED <<now, bookings, nextRec, remote, nextRemote, leads, page>>

\* Variant: a failed rejoin-token call is thrown to the caller.
GetActiveTokenThrows(r) ==
    /\ At(r, "getActive", "g_token")
    /\ \E reply \in Replies :
         req' = [req EXCEPT ![r].reply = reply, ![r].pc = "done",
                            ![r].outcome = IF reply = "ok" THEN "Success"
                                           ELSE IF reply = "error" THEN "Unavailable"
                                           ELSE "Internal",
                            ![r].ret = IF reply = "ok"
                                       THEN [NoRet EXCEPT !.sessionId = req[r].vs.id,
                                                          !.roomToken = TRUE]
                                       ELSE NoRet]
    /\ UNCHANGED <<now, bookings, voiceSessions, nextRec, remote, nextRemote, leads, page>>

\* GET /sessions/{id}/rejoin-token; every failure falls back to needsRestart.
GetActiveToken(r) ==
    /\ At(r, "getActive", "g_token")
    /\ \E reply \in Replies :
         req' = [req EXCEPT ![r].reply = reply, ![r].pc = "done", ![r].outcome = "Success",
                            ![r].ret = IF reply = "ok"
                                       THEN [NoRet EXCEPT !.sessionId = req[r].vs.id,
                                                          !.roomToken = TRUE]
                                       ELSE [NoRet EXCEPT !.sessionId = req[r].vs.id,
                                                          !.needsRestart = TRUE]]
    /\ UNCHANGED <<now, bookings, voiceSessions, nextRec, remote, nextRemote, leads, page>>

\* --------------------------------------------------- getSessionStatus
\* A call arrives: findUnique of the record.
StatusRead(r, id) ==
    /\ Free(r)
    /\ LET voiceSession == voiceSessions[id]
           call == [Idle EXCEPT !.op = "status", !.sessionId = id]
       IN  IF voiceSession.id = 0
           THEN req' = [req EXCEPT ![r] = [call EXCEPT !.pc = "done", !.outcome = "NotFound"]]
           ELSE req' = [req EXCEPT ![r] = [call EXCEPT !.vs = voiceSession, !.pc = "t_remote"]]
    /\ UNCHANGED <<now, bookings, voiceSessions, nextRec, remote, nextRemote, leads, page>>

\* GET /sessions/{id}/status: a non-2xx status is rethrown as
\* ServiceUnavailable, anything else thrown in the try block becomes
\* InternalServerError.
StatusRemote(r) ==
    /\ At(r, "status", "t_remote")
    /\ \E reply \in Replies, data \in Captures :
         /\ reply # "ok" => data.transcript = ""
         /\ req' = [req EXCEPT ![r].reply = reply, ![r].pc = "done",
                               ![r].outcome = IF reply = "ok" THEN "Success"
                                              ELSE IF reply = "error" THEN "Unavailable"
                                              ELSE "Internal",
                               ![r].ret = IF reply = "ok"
                                          THEN [NoRet EXCEPT !.transcript = data.transcript,
                                                             !.duration = data.duration]
                                          ELSE NoRet]
    /\ UNCHANGED <<now, bookings, voiceSessions, nextRec, remote, nextRemote, leads, page>>

\* ---------------------------------------------------- endVoiceSession
\* A call arrives: findUnique of the record with its booking.
EndRead(r, id) ==
    /\ Free(r)
    /\ LET voiceSession == voiceSessions[id]
           call == [Idle EXCEPT !.op = "end", !.sessionId = id]
       IN  IF voiceSession.id = 0
           THEN req' = [req EXCEPT ![r] = [call EXCEPT !.pc = "done", !.outcome = "NotFound"]]
           ELSE req' = [req EXCEPT ![r] =
                           [call EXCEPT !.vs = voiceSession,
                                        !.bookingId = voiceSession.bookingId,
                                        !.preStatus = bookings[voiceSession.bookingId].status,
                                        !.pc = "e_remote"]]
    /\ UNCHANGED <<now, bookings, voiceSessions, nextRec, remote, nextRemote, leads, page>>

\* Variant: a failed remote end call is thrown to the caller.
EndRemoteThrows(r) ==
    /\ At(r, "end", "e_remote")
    /\ \E reply \in Replies, data \in Captures :
         /\ reply # "ok" => data.transcript = ""
         /\ IF reply = "ok"
            THEN req' = [req EXCEPT ![r].reply = reply, ![r].pc = "e_update",
                                    ![r].transcript = StrOr(data.transcript, ""),
                                    ![r].duration = IntOr(data.duration, 0)]
            ELSE req' = [req EXCEPT ![r].reply = reply, ![r].pc = "done",
                                    ![r].outcome = IF reply = "error" THEN "Unavailable"
                                                   ELSE "Internal"]
    /\ UNCHANGED <<now, bookings, voiceSessions, nextRec, remote, nextRemote, leads, page>>

\* POST /sessions/{id}/end: only a 2xx reply with a parsable body sets the
\* locals transcript and duration; every failure is logged and swallowed.
EndRemote(r) ==
    /\ At(r, "end", "e_remote")
    /\ \E reply \in Replies, data \in Captures :
         /\ reply # "ok" => data.transcript = ""
         /\ req' = [req EXCEPT ![r].reply = reply, ![r].pc = "e_update",
                               ![r].transcript = StrOr(data.transcript, ""),
                               ![r].duration = IntOr(data.duration, 0)]
    /\ UNCHANGED <<now, bookings, voiceSessions, nextRec, remote, nextRemote, leads, page>>

\* prisma.voiceSession.update; it rejects when the row no longer exists and
\* nothing catches that.
EndUpdateSession(r) ==
    /\ At(r, "end", "e_update")
    /\ LET id == req[r].sessionId
       IN  IF voiceSessions[id].id = 0
           THEN /\ Finish(r, "Unhandled", NoRet)
                /\ UNCHANGED voiceSessions
           ELSE /\ voiceSessions' = [voiceSessions EXCEPT
                       ![id].endedAt = now,
                       ![id].transcript = StrOr(req[r].transcript, req[r].vs.transcript),
                       ![id].durationSeconds = IntOr(req[r].duration, req[r].vs.durationSeconds),
                       ![id].status = "completed"]
                /\ req' = [req EXCEPT ![r].pc = "e_booking"]
    /\ UNCHANGED <<now, bookings, nextRec, remote, nextRemote, leads, page>>

\* Variant: the booking update has no where clause, every booking is completed.
EndUpdateBookingEvery(r) ==
    /\ At(r, "end", "e_booking")
    /\ bookings' = [b \in BookingIds |->
                      IF bookings[b].exists THEN [bookings[b] EXCEPT !.status = "COMPLETED"]
                      ELSE bookings[b]]
    /\ Finish(r, "Success", [NoRet EXCEPT !.transcript = req[r].transcript,
                                          !.duration = req[r].duration])
    /\ UNCHANGED <<now, voiceSessions, nextRec, remote, nextRemote, leads, page>>

\* prisma.booking.update to COMPLETED and the return value.
EndUpdateBooking(r) ==
    /\ At(r, "end", "e_booking")
    /\ bookings' = [bookings EXCEPT ![req[r].vs.bookingId].status = "COMPLETED"]
    /\ Finish(r, "Success", [NoRet EXCEPT !.transcript = req[r].transcript,
                                          !.duration = req[r].duration])
    /\ UNCHANGED <<now, voiceSessions, nextRec, remote, nextRemote, leads, page>>

\* --------------------------------------------------- checkPythonHealth
\* GET /voice-agent/health arrives; the handler's first await is the fetch.
CheckHealth(r) ==
    /\ Free(r)
    /\ req' = [req EXCEPT ![r] = [Idle EXCEPT !.op = "health", !.pc = "h_remote"]]
    /\ UNCHANGED <<now, bookings, voiceSessions, nextRec, remote, nextRemote, leads, page>>

\* Variant: every 2xx reply counts as healthy, whatever status it reports.
HealthRemoteAny2xx(r) ==
    /\ At(r, "health", "h_remote")
    /\ \E reply \in Replies, status \in {"ok", "starting"} :
         /\ reply # "ok" => status = "ok"
         /\ req' = [req EXCEPT ![r].reply = reply, ![r].probe = status, ![r].pc = "done",
                               ![r].outcome = "Success",
                               ![r].ret = [NoRet EXCEPT !.status =
                                   IF reply = "ok" THEN "ok" ELSE "degraded"]]
    /\ UNCHANGED <<now, bookings, voiceSessions, nextRec, remote, nextRemote, leads, page>>

\* GET {python}/health: true only for a 2xx reply whose body says status
\* 'ok'; a non-2xx reply and anything thrown give false.  The controller
\* turns the boolean into 'ok' / 'degraded'.
HealthRemote(r) ==
    /\ At(r, "health", "h_remote")
    /\ \E reply \in Replies, status \in {"ok", "starting"} :
         /\ reply # "ok" => status = "ok"
         /\ req' = [req EXCEPT ![r].reply = reply, ![r].probe = status, ![r].pc = "done",
                               ![r].outcome = "Success",
                               ![r].ret = [NoRet EXCEPT !.status =
                                   IF reply = "ok" /\ status = "ok" THEN "ok" ELSE "degraded"]]
    /\ UNCHANGED <<now, bookings, voiceSessions, nextRec, remote, nextRemote, leads, page>>

\* Variant: reading an expired booking rewrites its status to EXPIRED.
FindByMeetingTokenMarksExpired(r, token) ==
    /\ Free(r)
    /\ LET found == {b \in BookingIds : bookings[b].exists /\ bookings[b].meetingToken = token}
           call == [Idle EXCEPT !.op = "resolve", !.meetingToken = token, !.pc = "done"]
       IN  IF found = {}
           THEN /\ req' = [req EXCEPT ![r] = [call EXCEPT !.outcome = "NotFound"]]
                /\ UNCHANGED bookings
           ELSE \E b \in found :
                  /\ req' = [req EXCEPT ![r] =
                                [call EXCEPT !.bookingId = b, !.outcome = "Success",
                                             !.ret = [NoRet EXCEPT
                                                         !.bookingId = b,
                                                         !.isExpired = (now > bookings[b].expiresAt),
                                                         !.status = bookings[b].status]]]
                  /\ bookings' = IF now > bookings[b].expiresAt
                                 THEN [bookings EXCEPT ![b].status = "EXPIRED"]
                                 ELSE bookings
    /\ UNCHANGED <<now, voiceSessions, nextRec, remote, nextRemote, leads, page>>

\* ------------------------------------------------------ BookingService
\* Variant: the token of an expired booking is answered like an unknown one.
FindByMeetingTokenHidesExpired(r, token) ==
    /\ Free(r)
    /\ LET found == {b \in BookingIds : /\ bookings[b].exists
                                        /\ bookings[b].meetingToken = token
                                        /\ ~(now > bookings[b].expiresAt)}
           call == [Idle EXCEPT !.op = "resolve", !.meetingToken = token, !.pc = "done"]
       IN  IF found = {}
           THEN req' = [req EXCEPT ![r] = [call EXCEPT !.outcome = "NotFound"]]
           ELSE \E b \in found :
                  req' = [req EXCEPT ![r] =
                             [call EXCEPT !.bookingId = b, !.outcome = "Success",
                                          !.ret = [NoRet EXCEPT !.bookingId = b,
                                                                !.status = bookings[b].status]]]
    /\ UNCHANGED <<now, bookings, voiceSessions, nextRec, remote, nextRemote, leads, page>>

\* GET /bookings/meeting/:meetingToken: findUnique by meetingToken, then
\* isExpired = new Date() > booking.expiresAt on the row that was found.
FindByMeetingToken(r, token) ==
    /\ Free(r)
    /\ LET found == {b \in BookingIds : bookings[b].exists /\ bookings[b].meetingToken = token}
           call == [Idle EXCEPT !.op = "resolve", !.meetingToken = token, !.pc = "done"]
       IN  IF found = {}
           THEN req' = [req EXCEPT ![r] = [call EXCEPT !.outcome = "NotFound"]]
           ELSE \E b \in found :
                  req' = [req EXCEPT ![r] =
                             [call EXCEPT !.bookingId = b, !.outcome = "Success",
                                          !.ret = [NoRet EXCEPT
                                                      !.bookingId = b,
                                                      !.isExpired = (now > bookings[b].expiresAt),
                                                      !.status = bookings[b].status]]]
    /\ UNCHANGED <<now, bookings, voiceSessions, nextRec, remote, nextRemote, leads, page>>

\* PATCH /bookings/:id/status: update of the status column alone; a
\* rejected update (no such row) becomes NotFound.
UpdateStatus(r, id, status) ==
    /\ Free(r)
    /\ LET call == [Idle EXCEPT !.op = "updateStatus", !.bookingId = id, !.pc = "done"]
       IN  IF bookings[id].exists
           THEN /\ bookings' = [bookings EXCEPT ![id].status = status]
                /\ req' = [req EXCEPT ![r] = [call EXCEPT !.outcome = "Success",
                                                          !.preStatus = bookings[id].status]]
           ELSE /\ UNCHANGED bookings
                /\ req' = [req EXCEPT ![r] = [call EXCEPT !.outcome = "NotFound"]]
    /\ UNCHANGED <<now, voiceSessions, nextRec, remote, nextRemote, leads, page>>

\* --------------------------------------------------------- LeadService
\* Variant: bookings has no unique index on meetingToken.
NoMeetingTokenIndex(token) == FALSE

\* CREATE UNIQUE INDEX bookings_meetingToken_key: an insert whose token
\* another row carries is rejected.
MeetingTokenTaken(token) ==
    \E b \in BookingIds : bookings[b].exists /\ bookings[b].meetingToken = token

\* Variant: the expiry window is counted in minutes.
ExpiresAtMinutes(scheduledAt, linkExpiryHours) ==
    scheduledAt + linkExpiryHours * 60 * 1000

\* new Date(scheduledDate.getTime() + agent.linkExpiryHours * 60 * 60 * 1000)
ExpiresAt(scheduledAt, linkExpiryHours) ==
    scheduledAt + linkExpiryHours * 60 * 60 * 1000

\* The id the database gives the next booking row.
NewBookingId == CHOOSE b \in BookingIds : ~bookings[b].exists

\* POST /leads arrives: agent.findUnique, NotFound when there is no such
\* agent.  (Ids for the rows the call may insert must be left.)
CreateFindAgent(r, agentId, scheduledAt) ==
    /\ Free(r)
    /\ Cardinality(leads) < MaxLeads
    /\ \E b \in BookingIds : ~bookings[b].exists
    /\ LET call == [Idle EXCEPT !.op = "create", !.agentId = agentId,
                                !.scheduledAt = scheduledAt]
       IN  IF ~Agents[agentId].exists
           THEN req' = [req EXCEPT ![r] = [call EXCEPT !.pc = "done", !.outcome = "NotFound"]]
           ELSE req' = [req EXCEPT ![r] = [call EXCEPT !.pc = "c_lead"]]
    /\ UNCHANGED <<now, bookings, voiceSessions, nextRec, remote, nextRemote, leads, page>>

\* prisma.lead.create, a statement of its own; the database may reject it.
CreateLead(r) ==
    /\ At(r, "create", "c_lead")
    /\ \E accepted \in BOOLEAN :
         IF accepted
         THEN LET id == Cardinality(leads) + 1
              IN  /\ leads' = leads \cup {id}
                  /\ req' = [req EXCEPT ![r].leadId = id, ![r].pc = "c_booking"]
         ELSE /\ Finish(r, "Unhandled", NoRet)
              /\ UNCHANGED leads
    /\ UNCHANGED <<now, bookings, voiceSessions, nextRec, remote, nextRemote, page>>

\* expiresAt, randomUUID() and bookingService.create, a second statement:
\* when the database rejects it (unique meetingToken, or any other error)
\* the rejection propagates and the lead row stays.
CreateBooking(r) ==
    /\ At(r, "create", "c_booking")
    /\ \E meetingToken \in Tokens, accepted \in BOOLEAN :
         IF accepted /\ ~MeetingTokenTaken(meetingToken)
         THEN LET id == NewBookingId
                  agent == Agents[req[r].agentId]
              IN  /\ bookings' = [bookings EXCEPT ![id] =
                         [exists |-> TRUE,
                          expiresAt |-> ExpiresAt(req[r].scheduledAt, agent.linkExpiryHours),
                          status |-> "PENDING", leadId |-> req[r].leadId,
                          agentId |-> req[r].agentId, scheduledAt |-> req[r].scheduledAt,
                          meetingToken |-> meetingToken]]
                  /\ req' = [req EXCEPT ![r].bookingId = id, ![r].meetingToken = meetingToken,
                                        ![r].pc = "done", ![r].outcome = "Success",
                                        ![r].ret = [NoRet EXCEPT !.bookingId = id]]
         ELSE /\ req' = [req EXCEPT ![r].meetingToken = meetingToken, ![r].pc = "done",
                                    ![r].outcome = "Unhandled"]
              /\ UNCHANGED bookings
    /\ UNCHANGED <<now, voiceSessions, nextRec, remote, nextRemote, leads, page>>

\* ------------------------------------------------------ specifications
Handlers(r) ==
    \/ StartProbe(r) \/ StartDeleteStale(r) \/ StartCreateRemote(r) \/ StartPersist(r)
    \/ GetActiveToken(r)
    \/ StatusRemote(r)
    \/ EndRemote(r) \/ EndUpdateSession(r) \/ EndUpdateBooking(r)
    \/ Retire(r)

\* Calls arrive at any time and their handlers interleave between awaits.
Next ==
    \/ Tick
    \/ \E r \in Reqs : Handlers(r)
    \/ \E r \in Reqs, b \in BookingIds : StartRead(r, b) \/ GetActiveRead(r, b)
    \/ \E r \in Reqs, id \in RecIds : StatusRead(r, id) \/ EndRead(r, id)

Spec == Init /\ [][Next]_vars

\* One call at a time: a call arrives only when every slot is idle, so the
\* state in which a slot is "done" is the state that call has left.
Quiet == \A r \in Reqs : req[r].pc = "idle"

SeqStartRead(r, b) == Quiet /\ StartRead(r, b)

SeqGetActiveRead(r, b) == Quiet /\ GetActiveRead(r, b)

SeqStatusRead(r, id) == Quiet /\ StatusRead(r, id)

SeqEndRead(r, id) == Quiet /\ EndRead(r, id)

SeqCheckHealth(r) == Quiet /\ CheckHealth(r)

SeqFindByMeetingToken(r, token) == Quiet /\ FindByMeetingToken(r, token)

SeqNext ==
    \/ Tick
    \/ \E r \in Reqs : Handlers(r) \/ SeqCheckHealth(r) \/ HealthRemote(r)
    \/ \E r \in Reqs, b \in BookingIds : SeqStartRead(r, b) \/ SeqGetActiveRead(r, b)
    \/ \E r \in Reqs, id \in RecIds : SeqStatusRead(r, id) \/ SeqEndRead(r, id)
    \/ \E r \in Reqs, token \in Tokens : SeqFindByMeetingToken(r, token)

SeqSpec == Init /\ [][SeqNext]_vars

\* The voice-agent calls together with the lead and booking endpoints, one
\* call at a time; leads are booked with the default agent or an unknown one.
SeqUpdateStatus(r, id, status) == Quiet /\ UpdateStatus(r, id, status)

SeqCreateFindAgent(r, agentId, scheduledAt) == Quiet /\ CreateFindAgent(r, agentId, scheduledAt)

BookingNext ==
    \/ SeqNext
    \/ \E r \in Reqs : CreateLead(r) \/ CreateBooking(r)
    \/ \E r \in Reqs, id \in BookingIds, status \in UpdateStatuses : SeqUpdateStatus(r, id, status)
    \/ \E r \in Reqs, agentId \in {"a0", "a1"} : SeqCreateFindAgent(r, agentId, 1)

BookingSpec == Init /\ [][BookingNext]_vars

\* The instants around the expiry of a booking: one hour, the 24 hours of
\* the default window, 25 hours and the longest window after a scheduledAt,
\* each with the millisecond that follows it.
Instants == {s + h * HourMs + d : s \in ScheduledAts, h \in {1, 24, 25, 168}, d \in {0, 1}}

\* Time passes between two calls.
Advance(t) ==
    /\ Quiet
    /\ t > now
    /\ now' = t
    /\ UNCHANGED <<bookings, voiceSessions, nextRec, remote, nextRemote, req, leads, page>>

StartHandlers(r) ==
    StartProbe(r) \/ StartDeleteStale(r) \/ StartCreateRemote(r) \/ StartPersist(r) \/ Retire(r)

\* Leads are booked with every agent and start is called as time passes.
ExpiryNext ==
    \/ Tick
    \/ \E t \in Instants : Advance(t)
    \/ \E r \in Reqs : CreateLead(r) \/ CreateBooking(r) \/ StartHandlers(r)
    \/ \E r \in Reqs, agentId \in AgentIds, scheduledAt \in ScheduledAts :
         SeqCreateFindAgent(r, agentId, scheduledAt)
    \/ \E r \in Reqs, b \in BookingIds : SeqStartRead(r, b)

ExpirySpec == Init /\ [][ExpiryNext]_vars

\* A remote that never answers: fetch is called without a signal or a
\* timeout at every call site, so the awaited promise never settles and the
\* handler stays where it is.
RemoteCalls == {"s_probe", "s_create", "g_token", "t_remote", "e_remote", "h_remote"}

RemoteSilent(r) ==
    /\ Delivered
    /\ req[r].pc \in RemoteCalls
    /\ req' = [req EXCEPT ![r].pc = "pending", ![r].reply = "silent"]
    /\ UNCHANGED <<now, bookings, voiceSessions, nextRec, remote, nextRemote, leads, page>>

HangNext == SeqNext \/ \E r \in Reqs : RemoteSilent(r)

\* The event loop runs every handler whose awaited promise has settled.
HangSpec ==
    Init /\ [][HangNext]_vars /\ WF_vars(\E r \in Reqs : Handlers(r) \/ HealthRemote(r))

\* ------------------------------------------------------- the meeting page
\* A response of the API reaches its caller through the web routes (the
\* meeting page) or as the API's endpoint sends it.
Vias == {"route", "api"}

\* The web routes of POST /api/voice-sessions/start and of GET
\* /api/voice-sessions/booking/:bookingId/active: a 2xx body is rebuilt from
\* sessionId, roomToken (as livekitToken), roomName and status; a field the
\* route does not copy is absent from what the page parses, and an absent
\* flag reads as false.
RouteBody(data) ==
    [sessionId |-> data.sessionId, livekitToken |-> data.roomToken, needsRestart |-> FALSE]

\* The body of the API's endpoint as the service returned it.
ApiBody(data) ==
    [sessionId |-> data.sessionId, livekitToken |-> data.roomToken,
     needsRestart |-> data.needsRestart]

Received(via, data) == IF via = "route" THEN RouteBody(data) ELSE ApiBody(data)

\* A visitor opens /meet/:meetingToken; the page mounts and fetches the booking.
PageOpen(via, token) ==
    /\ Quiet
    /\ page.pc = "off"
    /\ page' = [NoPage EXCEPT !.pc = "load", !.via = via, !.meetingToken = token]
    /\ UNCHANGED <<now, bookings, voiceSessions, nextRec, remote, nextRemote, req, leads>>

\* fetchBooking: GET /api/bookings/meeting/:meetingToken.
PageLoad(r) == page.pc = "load" /\ SeqFindByMeetingToken(r, page.meetingToken)

\* startVoiceSession: POST /api/voice-sessions/start.
PageStart(r) == page.pc = "start" /\ SeqStartRead(r, page.bookingId)

\* After a 409: GET /api/voice-sessions/booking/:bookingId/active.
PageActive(r) == page.pc = "active" /\ SeqGetActiveRead(r, page.bookingId)

\* POST /api/voice-sessions/:sessionId/end, of the restart branch or of the
\* End Call button.
PageEnd(r) == page.pc \in {"end", "hangup"} /\ SeqEndRead(r, page.sessionId)

\* requestMicPermission answers false: the page shows the error, no fetch.
PageMicDenied ==
    /\ Quiet
    /\ page.pc = "start"
    /\ page' = [page EXCEPT !.pc = "error", !.restarting = FALSE]
    /\ UNCHANGED <<now, bookings, voiceSessions, nextRec, remote, nextRemote, req, leads>>

\* The awaited fetch settles and the page's code after it runs: the
\* auto-start effect after the booking loaded, the 409 branch of
\* startVoiceSession, the needsRestart branch, the retry after the end.
PageReceive(r) ==
    /\ req[r].pc = "done"
    /\ req' = [req EXCEPT ![r] = Idle]
    /\ LET res  == req[r]
           ok   == res.outcome = "Success"
           body == Received(page.via, res.ret)
       IN  page' =
             CASE page.pc = "load" ->
                    IF ~ok THEN [page EXCEPT !.pc = "error"]
                    ELSE IF /\ ~res.ret.isExpired
                            /\ res.ret.status # "COMPLETED"
                            /\ res.ret.status # "CANCELLED"
                    THEN [page EXCEPT !.pc = "start", !.bookingId = res.ret.bookingId]
                    ELSE [page EXCEPT !.pc = "idle", !.bookingId = res.ret.bookingId]
               [] page.pc = "start" ->
                    IF res.outcome = "Conflict"
                    THEN [page EXCEPT !.pc = "active", !.restarting = FALSE]
                    ELSE IF ok
                    THEN [page EXCEPT !.pc = "joined", !.restarting = FALSE,
                                      !.sessionId = body.sessionId,
                                      !.livekitToken = body.livekitToken]
                    ELSE [page EXCEPT !.pc = "error", !.restarting = FALSE]
               [] page.pc = "active" ->
                    IF ~ok THEN [page EXCEPT !.pc = "error"]
                    ELSE IF body.needsRestart
                    THEN [page EXCEPT !.pc = "end", !.restarting = TRUE,
                                      !.needsRestart = TRUE,
                                      !.sessionId = body.sessionId]
                    ELSE [page EXCEPT !.pc = "joined",
                                      !.sessionId = body.sessionId,
                                      !.livekitToken = body.livekitToken]
               [] page.pc = "end" -> [page EXCEPT !.pc = "start"]
               [] OTHER -> NoPage
    /\ UNCHANGED <<now, bookings, voiceSessions, nextRec, remote, nextRemote, leads>>

\* The End Call button: endVoiceSession, then the page is left.
PageHangUp ==
    /\ Quiet
    /\ page.pc = "joined"
    /\ page.sessionId # 0
    /\ page' = [page EXCEPT !.pc = "hangup"]
    /\ UNCHANGED <<now, bookings, voiceSessions, nextRec, remote, nextRemote, req, leads>>

\* The visit ends without an end request reaching the API (the browser or
\* the network is gone before the beacon is sent).
PageClose ==
    /\ Quiet
    /\ page.pc \in {"joined", "error", "idle"}
    /\ page' = NoPage
    /\ UNCHANGED <<now, bookings, voiceSessions, nextRec, remote, nextRemote, req, leads>>

PageHandlers(r) ==
    \/ StartProbe(r) \/ StartDeleteStale(r) \/ StartCreateRemote(r) \/ StartPersist(r)
    \/ GetActiveToken(r)
    \/ EndRemote(r) \/ EndUpdateSession(r) \/ EndUpdateBooking(r)
    \/ PageReceive(r)

\* One visitor at a time on the meeting links, every fetch awaited.
PageNext ==
    \/ Tick
    \/ \E via \in Vias, token \in {"t1", "t2"} : PageOpen(via, token)
    \/ PageMicDenied \/ PageHangUp \/ PageClose
    \/ \E r \in Reqs : PageHandlers(r) \/ PageLoad(r) \/ PageStart(r) \/ PageActive(r)
                       \/ PageEnd(r)

PageSpec == Init /\ [][PageNext]_vars

\* -------------------------------------------------- two joinable bookings
\* Two leads hold live meeting links at the same time.
PairInit ==
    /\ now = 1
    /\ bookings = [b \in BookingIds |->
                     IF b = "b1"
                     THEN [exists |-> TRUE, expiresAt |-> 1, status |-> "PENDING",
                           leadId |-> 1, agentId |-> "a1",
                           scheduledAt |-> 1 - 24 * HourMs, meetingToken |-> "t1"]
                     ELSE IF b = "b2"
                     THEN [exists |-> TRUE, expiresAt |-> 1, status |-> "PENDING",
                           leadId |-> 2, agentId |-> "a1",
                           scheduledAt |-> 1 - 24 * HourMs, meetingToken |-> "t2"]
                     ELSE NoBooking]
    /\ leads = {1, 2}
    /\ voiceSessions = [i \in RecIds |-> NoRec]
    /\ nextRec = 0
    /\ remote = [s \in RemoteIds |-> "none"]
    /\ nextRemote = 0
    /\ req = [r \in Reqs |-> Idle]
    /\ page = NoPage

\* The booking a call in flight is about: the one it named, or the one of
\* the record it read.
BookingOf(call) == IF call.op \in {"status", "end"} THEN call.vs.bookingId ELSE call.bookingId

\* No call for booking b is in flight.
NoCallFor(b) == \A q \in Reqs : req[q].pc = "idle" \/ BookingOf(req[q]) # b

\* Each lead's page sends one call at a time; the calls of the two leads
\* arrive at any time and interleave between awaits.
PairStartRead(r, b) == NoCallFor(b) /\ StartRead(r, b)

PairGetActiveRead(r, b) == NoCallFor(b) /\ GetActiveRead(r, b)

PairStatusRead(r, id) == NoCallFor(voiceSessions[id].bookingId) /\ StatusRead(r, id)

PairEndRead(r, id) == NoCallFor(voiceSessions[id].bookingId) /\ EndRead(r, id)

PairNext ==
    \/ \E r \in Reqs : Handlers(r)
    \/ \E r \in Reqs, b \in {"b1", "b2"} : PairStartRead(r, b) \/ PairGetActiveRead(r, b)
    \/ \E r \in Reqs, id \in RecIds : PairStatusRead(r, id) \/ PairEndRead(r, id)

PairSpec == PairInit /\ [][PairNext]_vars

\* ----------------------------------------------------------- properties
Done(r, op) == req[r].op = op /\ req[r].pc = "done"

ActiveRecordsOf(b) == {i \in RecordsOf(b) : voiceSessions[i].status = "active"}

\* A nullable column read as the value the caller sees: NULL is empty.
TextOf(x) == IF x = NullStr THEN "" ELSE x

NumOf(x) == IF x = NullInt THEN 0 ELSE x

C2_LiveProbeConflict ==
    \A r \in Reqs : (Done(r, "start") /\ req[r].probe = "active") =>
        /\ req[r].outcome = "Conflict"
        /\ req[r].reply = "none" /\ req[r].remoteId = 0
        /\ req[r].vs.id # 0
        /\ voiceSessions[req[r].vs.id] = req[r].vs

C2_Witness ==
    \E r \in Reqs : Done(r, "start") /\ req[r].probe = "active" /\ req[r].outcome = "Conflict"

\* C3: a second start whose probe reports the first remote session absent
\* (error status) or not active, and whose create request is accepted,
\* succeeds; the first record is deleted and the booking has exactly one
\* record afterwards, active and referencing the second remote session.
C3_StaleRestart ==
    \A r \in Reqs :
        (Done(r, "start") /\ req[r].probe \in {"inactive", "error"} /\ req[r].reply = "ok") =>
            /\ req[r].outcome = "Success"
            /\ voiceSessions[req[r].vs.id] = NoRec
            /\ Cardinality(RecordsOf(req[r].bookingId)) = 1
            /\ VoiceSessionOf(req[r].bookingId).id = req[r].ret.sessionId
            /\ VoiceSessionOf(req[r].bookingId).sessionId = req[r].remoteId
            /\ VoiceSessionOf(req[r].bookingId).status = "active"
            /\ req[r].remoteId # req[r].vs.sessionId

C3_Witness ==
    \E r \in Reqs : /\ Done(r, "start") /\ req[r].probe = "inactive"
                    /\ req[r].reply = "ok" /\ req[r].outcome = "Success"
                    /\ req[r].vs.status = "active"

\* C4: a probe that fails (error status; fetch or body parsing rejects) is
\* handled like an 'absent' answer: the record is deleted, the create
\* request is sent, and start errs only if that create request fails.
C4_ProbeFailureIsAbsent ==
    \A r \in Reqs :
        (Done(r, "start") /\ req[r].probe \in {"error", "throw"}) =>
            /\ voiceSessions[req[r].vs.id] = NoRec
            /\ req[r].reply # "none"
            /\ req[r].reply = "ok" => req[r].outcome = "Success"
            /\ req[r].outcome \notin {"Conflict", "NotFound", "Unhandled"}

C4_Witness ==
    \E r \in Reqs : /\ Done(r, "start") /\ req[r].probe = "throw"
                    /\ req[r].outcome = "Success"

\* C5 (as claimed): when the create-session request fails (error response,
\* network failure or timeout) start answers Unavailable and the booking and
\* its SessionRecord are exactly as they were when start read them.
C5_CreateFailureNoMutation ==
    \A r \in Reqs :
        (Done(r, "start") /\ req[r].reply \in {"error", "throw"}) =>
            /\ req[r].outcome = "Unavailable"
            /\ VoiceSessionOf(req[r].bookingId) = req[r].vs
            /\ bookings[req[r].bookingId].status = req[r].preStatus

\* C6 (as claimed): a start rejected at re-validation (no probe, no create
\* request) answers Gone when the booking exists but has expired and
\* NotFound when no booking has the id.
C6_ExpiredIsGone ==
    \A r \in Reqs :
        (Done(r, "start") /\ req[r].probe = "none" /\ req[r].reply = "none") =>
            /\ req[r].outcome = IF bookings[req[r].bookingId].exists THEN "Gone" ELSE "NotFound"
            /\ req[r].remoteId = 0

\* C7: an end call that found its record succeeds and leaves the record
\* 'completed' with an end timestamp and the booking COMPLETED, for every
\* reply of the remote end call.
C7_EndAlwaysCompletes ==
    \A r \in Reqs : (Done(r, "end") /\ req[r].vs.id # 0) =>
        /\ req[r].outcome = "Success"
        /\ voiceSessions[req[r].sessionId].status = "completed"
        /\ voiceSessions[req[r].sessionId].endedAt # NullInt
        /\ bookings[req[r].vs.bookingId].status = "COMPLETED"

C7_Witness ==
    \E r \in Reqs : /\ Done(r, "end") /\ req[r].reply \in {"error", "throw"}
                    /\ req[r].vs.status = "active" /\ req[r].outcome = "Success"

\* C8 (as claimed): an end call on a record that is already 'completed'
\* fails NotFound or leaves the record as it was, and the stored transcript
\* and durationSeconds are those the first end call left.
C8_EndIdempotent ==
    \A r \in Reqs : (Done(r, "end") /\ req[r].vs.status = "completed") =>
        /\ req[r].outcome = "NotFound" \/ voiceSessions[req[r].sessionId] = req[r].vs
        /\ voiceSessions[req[r].sessionId].transcript = req[r].vs.transcript
        /\ voiceSessions[req[r].sessionId].durationSeconds = req[r].vs.durationSeconds

\* C9 (as claimed): when the remote end call fails, the transcript and
\* duration stored afterwards and those returned to the caller are the ones
\* the record held before the call.
C9_EndFallsBackToStored ==
    \A r \in Reqs : (Done(r, "end") /\ req[r].vs.id # 0 /\ req[r].reply # "ok") =>
        /\ voiceSessions[req[r].sessionId].transcript = req[r].vs.transcript
        /\ voiceSessions[req[r].sessionId].durationSeconds = req[r].vs.durationSeconds
        /\ TextOf(req[r].ret.transcript) = TextOf(req[r].vs.transcript)
        /\ NumOf(req[r].ret.duration) = NumOf(req[r].vs.durationSeconds)

\* C10 (as claimed): status on an existing record answers Unavailable when
\* the remote status call answers an error status and when it is
\* unreachable; NotFound is answered only when the record does not exist.
C10_StatusUnavailable ==
    \A r \in Reqs : Done(r, "status") =>
        /\ (req[r].vs.id # 0 /\ req[r].reply \in {"error", "throw"}) =>
               req[r].outcome = "Unavailable"
        /\ req[r].outcome = "NotFound" => req[r].vs.id = 0

\* C11: get_active on a booking that has an 'active' record never fails: a
\* 2xx rejoin reply gives the fresh credential, and every failure of the
\* remote call (error status, unreachable, unparsable) gives the record's
\* id with needsRestart = true and no credential.
C11_GetActiveDegrades ==
    \A r \in Reqs : (Done(r, "getActive") /\ ActiveRecordsOf(req[r].bookingId) # {}) =>
        /\ req[r].outcome = "Success"
        /\ req[r].ret.sessionId \in ActiveRecordsOf(req[r].bookingId)
        /\ req[r].reply = "ok" => (req[r].ret.roomToken /\ ~req[r].ret.needsRestart)
        /\ req[r].reply \in {"error", "throw"} =>
               (req[r].ret.needsRestart /\ ~req[r].ret.roomToken)

C11_Witness ==
    \E r \in Reqs : /\ Done(r, "getActive") /\ req[r].reply = "throw"
                    /\ ActiveRecordsOf(req[r].bookingId) # {}
                    /\ req[r].ret.needsRestart

\* C12: token resolution answers the booking that carries the token, with
\* isExpired = (now > expiresAt), also when that booking has expired; it
\* answers NotFound only when no booking carries the token.
C12_ResolveDistinguishesExpiry ==
    \A r \in Reqs : Done(r, "resolve") =>
        LET carriers == {b \in BookingIds : /\ bookings[b].exists
                                            /\ bookings[b].meetingToken = req[r].meetingToken}
        IN  IF carriers = {}
            THEN req[r].outcome = "NotFound"
            ELSE /\ req[r].outcome = "Success"
                 /\ req[r].ret.bookingId \in carriers
                 /\ req[r].ret.isExpired = (now > bookings[req[r].ret.bookingId].expiresAt)

C12_Witness ==
    \E r \in Reqs : /\ Done(r, "resolve") /\ req[r].outcome = "Success"
                    /\ req[r].ret.isExpired
                    /\ now > bookings[req[r].ret.bookingId].expiresAt

\* C13: a booking created for scheduled time T with an agent whose
\* linkExpiryHours is h gets expiresAt = T + h hours, and a start on an
\* existing booking is turned away as expired exactly when now > expiresAt
\* (with h = 24 it passes at T + 1h and is turned away at T + 25h).
C13_ExpiryWindow ==
    [][\A r \in Reqs :
         /\ (req[r].pc = "c_booking" /\ req'[r].pc = "done" /\ req'[r].outcome = "Success") =>
                bookings'[req'[r].bookingId].expiresAt =
                    req[r].scheduledAt + Agents[req[r].agentId].linkExpiryHours * HourMs
         /\ (req[r].pc = "idle" /\ req'[r].op = "start" /\ bookings[req'[r].bookingId].exists) =>
                LET booking == bookings[req'[r].bookingId]
                IN  /\ (req'[r].pc = "done") <=> (now > booking.expiresAt)
                    /\ (Agents[booking.agentId].linkExpiryHours = 24
                          /\ now = booking.scheduledAt + HourMs) => req'[r].pc # "done"
                    /\ (Agents[booking.agentId].linkExpiryHours = 24
                          /\ now = booking.scheduledAt + 25 * HourMs) =>
                             (req'[r].pc = "done" /\ req'[r].outcome = "NotFound")
      ]_vars

C13_Witness ==
    \E r \in Reqs :
        /\ Done(r, "start") /\ req[r].bookingId = "b3" /\ bookings["b3"].exists
        /\ bookings["b3"].agentId = "a1"
        /\ bookings["b3"].expiresAt = bookings["b3"].scheduledAt + 24 * HourMs
        /\ now = bookings["b3"].scheduledAt + 25 * HourMs
        /\ req[r].outcome = "NotFound"

\* C14 (as claimed): when no createWithBooking call is in flight, every lead
\* has its booking: a call that failed at any step has left neither row.
C14_LeadAndBookingAtomic ==
    (\A r \in Reqs : req[r].op = "create" => req[r].pc = "done") =>
        \A l \in leads : \E b \in BookingIds : bookings[b].exists /\ bookings[b].leadId = l

\* C15: every booking carries one meeting token, no two bookings carry the
\* same one, and no step of any operation changes the token of a booking
\* that exists.
C15_TokenUniqueImmutable ==
    [][/\ \A b \in BookingIds : bookings[b].exists =>
              /\ bookings'[b].exists
              /\ bookings'[b].meetingToken = bookings[b].meetingToken
       /\ \A b \in BookingIds : bookings'[b].exists => bookings'[b].meetingToken \in Tokens
       /\ \A b, c \in BookingIds :
              (bookings'[b].exists /\ bookings'[c].exists /\ b # c) =>
                  bookings'[b].meetingToken # bookings'[c].meetingToken
      ]_vars

C15_Witness ==
    \E r \in Reqs : /\ Done(r, "updateStatus") /\ req[r].bookingId = "b3"
                    /\ req[r].outcome = "Success"
                    /\ bookings["b3"].meetingToken = "t3"

\* C16 (as claimed): a record that end has marked 'completed' stays in the
\* store, 'completed', with the transcript and duration it captured, at
\* every later step of start, get_active, status and end.
C16_CompletedRecordKept ==
    [][\A i \in RecIds : voiceSessions[i].status = "completed" =>
          /\ voiceSessions'[i].id = i
          /\ voiceSessions'[i].status = "completed"
          /\ voiceSessions[i].transcript # NullStr =>
                 voiceSessions'[i].transcript = voiceSessions[i].transcript
          /\ voiceSessions[i].durationSeconds # NullInt =>
                 voiceSessions'[i].durationSeconds = voiceSessions[i].durationSeconds
      ]_vars

\* C17 (as claimed): every call that has arrived is eventually answered,
\* also when the remote never answers a request.
C17_EveryCallReturns ==
    \A r \in Reqs : (req[r].pc # "idle") ~> (req[r].pc \in {"done", "idle"})

\* C18: the health call never fails, answers 'ok' exactly when the remote
\* health reply is 2xx and reports status ok and 'degraded' otherwise, and
\* no step of it writes a booking or a voice session.
C18_HealthOkOrDegraded ==
    [][\A r \in Reqs : (req'[r].op = "health" /\ req'[r] # req[r]) =>
          /\ bookings' = bookings
          /\ voiceSessions' = voiceSessions
          /\ req'[r].pc = "done" =>
                 /\ req'[r].outcome = "Success"
                 /\ req'[r].ret.status \in {"ok", "degraded"}
                 /\ (req'[r].ret.status = "ok") <=>
                        (req'[r].reply = "ok" /\ req'[r].probe = "ok")
      ]_vars

C18_Witness ==
    \E r \in Reqs : /\ Done(r, "health") /\ req[r].reply = "ok" /\ req[r].probe = "starting"
                    /\ req[r].ret.status = "degraded"

\* C19: a start ends in Conflict only when its own probe answered 2xx with
\* active = true; every other start that passed re-validation sends the
\* create request and succeeds when the remote accepts it.
C19_ConflictOnlyOnLiveProbe ==
    \A r \in Reqs : Done(r, "start") =>
        /\ req[r].outcome = "Conflict" => req[r].probe = "active"
        /\ (req[r].outcome # "NotFound" /\ req[r].probe # "active") => req[r].reply # "none"
        /\ req[r].reply = "ok" => req[r].outcome = "Success"

C19_Witness ==
    \E r \in Reqs : /\ Done(r, "start") /\ req[r].vs.id # 0 /\ req[r].probe = "error"
                    /\ req[r].reply = "ok" /\ req[r].outcome = "Success"

\* C20: at every step, each voice session row references a session the
\* remote created in answer to a start for the same booking, and a row that
\* appears is 'active'; so a booking whose starts all failed before or at
\* the remote create has no row.
C20_RecordsReferenceCreatedSessions ==
    [][\A i \in RecIds : voiceSessions'[i].id # 0 =>
          /\ voiceSessions'[i].sessionId \in 1..nextRemote'
          /\ remote'[voiceSessions'[i].sessionId] = voiceSessions'[i].bookingId
          /\ voiceSessions[i].id = 0 => voiceSessions'[i].status = "active"
      ]_vars

C20_Witness ==
    \E r \in Reqs :
        /\ Done(r, "start") /\ req[r].outcome = "Success"
        /\ voiceSessions[req[r].ret.sessionId].sessionId = req[r].remoteId
        /\ remote[req[r].remoteId] = req[r].bookingId
        /\ voiceSessions[req[r].ret.sessionId].status = "active"

\* C21 (as claimed): a start that received a successful create-session
\* response has, when it finishes, a voice session row referencing the
\* remote session it created, in every interleaving of start calls.
C21_CreatedSessionIsRecorded ==
    \A r \in Reqs : (Done(r, "start") /\ req[r].remoteId # 0) =>
        \E i \in RecIds : /\ voiceSessions[i].id # 0
                          /\ voiceSessions[i].sessionId = req[r].remoteId

\* C22 (as claimed): an end call finishes with success or NotFound only,
\* and an end that found its record leaves the booking COMPLETED, also when
\* a concurrent start deleted the record between end's read and its write.
C22_EndSucceedsOrNotFound ==
    \A r \in Reqs : Done(r, "end") =>
        /\ req[r].outcome \in {"Success", "NotFound"}
        /\ req[r].vs.id # 0 => bookings[req[r].vs.bookingId].status = "COMPLETED"

\* C23 (as claimed): after get_active answered needsRestart for a record and
\* the caller ended that record, the start that follows succeeds and returns
\* join credentials, provided the booking is still unexpired and the remote
\* does not refuse the create request.
C23_RestartRecovers ==
    \A r \in Reqs :
        (Done(r, "start") /\ page.pc = "start" /\ page.restarting) =>
            ((req[r].outcome # "NotFound" /\ req[r].reply \notin {"error", "throw"}) =>
                 (req[r].outcome = "Success" /\ req[r].ret.roomToken))

\* C24 (as claimed): when the API answers the page's active-session request
\* with needsRestart = true, the body the page receives through the web
\* route carries needsRestart = true and the page takes its end-then-start
\* branch.
C24_RouteKeepsNeedsRestart ==
    [][\A r \in Reqs :
          (/\ Done(r, "getActive") /\ req[r].outcome = "Success" /\ req[r].ret.needsRestart
           /\ page.via = "route" /\ page.pc = "active"
           /\ req'[r] = Idle) =>
              (page'.needsRestart /\ page'.pc = "end")
      ]_vars

\* C25 (as claimed): a start on a booking whose status is COMPLETED or
\* CANCELLED creates no remote session and no voice session row, so no
\* concluded booking gets an 'active' row after it was concluded.
C25_ConcludedNotJoinable ==
    \A r \in Reqs :
        (Done(r, "start") /\ bookings[req[r].bookingId].exists
                          /\ req[r].preStatus \in {"COMPLETED", "CANCELLED"}) =>
            /\ req[r].remoteId = 0
            /\ req[r].outcome # "Success"
            /\ \A i \in ActiveRecordsOf(req[r].bookingId) : voiceSessions[i] = req[r].vs

C27_ReadsAreReadOnly ==
    [][\A r \in Reqs :
          (/\ req'[r] # req[r]
           /\ req'[r].op \in {"resolve", "getActive", "status"}) =>
              /\ bookings' = bookings
              /\ voiceSessions' = voiceSessions
              /\ nextRec' = nextRec
      ]_vars

C27_Witness ==
    \E r \in Reqs : /\ Done(r, "getActive") /\ req[r].ret.needsRestart
                    /\ req[r].reply \in {"error", "throw"}
                    /\ voiceSessions[req[r].vs.id] = req[r].vs
                    /\ req[r].vs.status = "active"

\* C28: every step of a start, get_active, status or end call about one
\* booking leaves the row of every other booking and every voice session
\* row of every other booking as they were, in every interleaving of the
\* calls of two bookings.
C28_OtherBookingsUntouched ==
    [][\A r \in Reqs :
          (/\ req'[r] # req[r]
           /\ req'[r].op \in {"start", "getActive", "status", "end"}) =>
              \A b \in BookingIds : b # BookingOf(req'[r]) =>
                  /\ bookings'[b] = bookings[b]
                  /\ \A i \in RecIds :
                        (voiceSessions[i].bookingId = b \/ voiceSessions'[i].bookingId = b) =>
                            voiceSessions'[i] = voiceSessions[i]
      ]_vars

C28_Witness ==
    \E r \in Reqs, i \in RecIds :
        /\ Done(r, "end") /\ req[r].outcome = "Success"
        /\ voiceSessions[i].id # 0
        /\ voiceSessions[i].bookingId # req[r].vs.bookingId
        /\ voiceSessions[i].status = "active"
        /\ bookings[voiceSessions[i].bookingId].status = "PENDING"
        /\ \E q \in Reqs : q # r /\ req[q].pc \notin {"idle", "done"}
                           /\ BookingOf(req[q]) = voiceSessions[i].bookingId

\* C29: get_active answers NotFound exactly when the booking has no voice
\* session row with status 'active' (no row at all, or only a 'completed'
\* one), and a NotFound answer is given without any request to the remote.
C29_NotFoundIffNoActiveRecord ==
    \A r \in Reqs : Done(r, "getActive") =>
        /\ (req[r].outcome = "NotFound") <=> (ActiveRecordsOf(req[r].bookingId) = {})
        /\ req[r].outcome = "NotFound" => (req[r].reply = "none" /\ req[r].vs = NoRec)

C29_Witness ==
    \E r \in Reqs : /\ Done(r, "getActive") /\ req[r].outcome = "NotFound"
                    /\ req[r].reply = "none"
                    /\ \E i \in RecordsOf(req[r].bookingId) :
                          voiceSessions[i].status = "completed"

\* C30: at every instant token resolution reports isExpired = true exactly
\* when a start arriving at that instant turns the booking away as expired:
\* the resolver's flag equals start's test expiresAt < now, start's rejection
\* equals the resolver's test now > expiresAt, and at now = expiresAt the
\* resolver reports not expired and start lets the booking pass.
C30_ResolverAndStartAgree ==
    [][\A r \in Reqs :
         /\ (req[r].pc = "idle" /\ req'[r].op = "resolve" /\ req'[r].outcome = "Success") =>
                LET booking == bookings[req'[r].ret.bookingId]
                IN  /\ req'[r].ret.isExpired <=> (booking.expiresAt < now)
                    /\ now = booking.expiresAt => ~req'[r].ret.isExpired
         /\ (req[r].pc = "idle" /\ req'[r].op = "start" /\ bookings[req'[r].bookingId].exists) =>
                LET booking == bookings[req'[r].bookingId]
                IN  /\ (req'[r].pc = "done" /\ req'[r].outcome = "NotFound") <=>
                           (now > booking.expiresAt)
                    /\ now = booking.expiresAt => req'[r].pc # "done"
      ]_vars

C30_Witness ==
    \E r \in Reqs : /\ Done(r, "resolve") /\ req[r].outcome = "Success"
                    /\ ~req[r].ret.isExpired
                    /\ now = bookings[req[r].ret.bookingId].expiresAt
====
